---- MODULE Spec2Model ----
(***************************************************************************)
(* The Slack webhook receiver of slack_server.py as a state machine: the   *)
(* signature gate, the event de-duplication gate, the message parser, the  *)
(* notifier and the background automation task.                            *)
(*                                                                         *)
(* Representation.  A Python str the code only compares is a TLA+ string;  *)
(* a str the code takes apart (the message text, the automation result)    *)
(* is a tuple of one-character strings.  A JSON value is a tagged record:  *)
(* [t |-> "null"], [t |-> "str", s |-> ..], [t |-> "text", c |-> <<..>>],  *)
(* [t |-> "num", n |-> ..], [t |-> "arr"], [t |-> "obj", o |-> record].    *)
(* Python's None and JSON null are the same value, JNull.                  *)
(***************************************************************************)
EXTENDS Integers, Sequences, FiniteSets, TLC

\* ------------------------------------------------------------------ bounds
\* Number of webhook deliveries one run of the process receives.
MaxReqs == 2
\* Number of seconds the wall clock may advance during a run.
MaxTicks == 1
\* Number of pieces a message text of the parser's specification is made of.
MaxPieces == 3

\* ------------------------------------------------------ character strings
Whitespace == {" ", "\n", "\t"}

UpperDigits ==
  {"A","B","C","D","E","F","G","H","I","J","K","L","M","N","O","P","Q","R",
   "S","T","U","V","W","X","Y","Z","0","1","2","3","4","5","6","7","8","9"}

\* str.lower() on one character (ASCII letters).
LowerChar(ch) ==
  CASE ch = "A" -> "a" [] ch = "B" -> "b" [] ch = "C" -> "c" [] ch = "D" -> "d"
    [] ch = "E" -> "e" [] ch = "F" -> "f" [] ch = "G" -> "g" [] ch = "H" -> "h"
    [] ch = "I" -> "i" [] ch = "J" -> "j" [] ch = "K" -> "k" [] ch = "L" -> "l"
    [] ch = "M" -> "m" [] ch = "N" -> "n" [] ch = "O" -> "o" [] ch = "P" -> "p"
    [] ch = "Q" -> "q" [] ch = "R" -> "r" [] ch = "S" -> "s" [] ch = "T" -> "t"
    [] ch = "U" -> "u" [] ch = "V" -> "v" [] ch = "W" -> "w" [] ch = "X" -> "x"
    [] ch = "Y" -> "y" [] ch = "Z" -> "z" [] OTHER -> ch

Lower(s) == [i \in 1..Len(s) |-> LowerChar(s[i])]

RECURSIVE LStrip(_)
LStrip(s) ==
  IF s # <<>> /\ Head(s) \in Whitespace THEN LStrip(Tail(s)) ELSE s

RECURSIVE RStrip(_)
RStrip(s) ==
  IF s # <<>> /\ s[Len(s)] \in Whitespace
    THEN RStrip(SubSeq(s, 1, Len(s) - 1))
    ELSE s

\* str.strip()
Strip(s) == RStrip(LStrip(s))

\* pat occurs in s starting at index i
MatchAt(s, i, pat) ==
  /\ i + Len(pat) - 1 <= Len(s)
  /\ \A k \in 1..Len(pat) : s[i + k - 1] = pat[k]

\* pat in s
Contains(s, pat) == \E i \in 1..(Len(s) + 1) : MatchAt(s, i, pat)

\* s.startswith(pat)
StartsWith(s, pat) == MatchAt(s, 1, pat)

\* s.split(sep) for a one-character separator: never empty, keeps empty pieces
RECURSIVE SplitChar(_, _)
SplitChar(s, sep) ==
  IF \A i \in 1..Len(s) : s[i] # sep
    THEN <<s>>
    ELSE LET i == CHOOSE j \in 1..Len(s) :
                    s[j] = sep /\ \A k \in 1..(j - 1) : s[k] # sep
         IN  <<SubSeq(s, 1, i - 1)>> \o SplitChar(SubSeq(s, i + 1, Len(s)), sep)

\* [item.strip() for item in pieces if item.strip()]
RECURSIVE StripNonEmpty(_)
StripNonEmpty(pieces) ==
  IF pieces = <<>> THEN <<>>
  ELSE IF Strip(Head(pieces)) = <<>> THEN StripNonEmpty(Tail(pieces))
  ELSE <<Strip(Head(pieces))>> \o StripNonEmpty(Tail(pieces))

\* Length of the run of [A-Z0-9] characters of s that starts at index i.
RECURSIVE ClassRun(_, _)
ClassRun(s, i) ==
  IF i <= Len(s) /\ s[i] \in UpperDigits THEN 1 + ClassRun(s, i + 1) ELSE 0

\* Length of the match of <@[A-Z0-9]+> at index i of s, 0 when there is none.
MentionAt(s, i) ==
  IF MatchAt(s, i, <<"<", "@">>)
     /\ ClassRun(s, i + 2) >= 1
     /\ i + 2 + ClassRun(s, i + 2) <= Len(s)
     /\ s[i + 2 + ClassRun(s, i + 2)] = ">"
    THEN 2 + ClassRun(s, i + 2) + 1
    ELSE 0

\* re.sub(r'<@[A-Z0-9]+>', '', s), scanning from index i
RECURSIVE SubMentions(_, _)
SubMentions(s, i) ==
  IF i > Len(s) THEN <<>>
  ELSE IF MentionAt(s, i) > 0 THEN SubMentions(s, i + MentionAt(s, i))
  ELSE <<s[i]>> \o SubMentions(s, i + 1)

BotName == <<"@", "t", "e", "s", "c", "o", "-", "b", "o", "t">>

\* re.sub(r'@tesco-bot', '', s, flags=re.IGNORECASE), scanning from index i
RECURSIVE SubBotName_CaseSensitive(_, _)
SubBotName_CaseSensitive(s, i) ==
  IF i > Len(s) THEN <<>>
  ELSE IF MatchAt(s, i, BotName) THEN SubBotName_CaseSensitive(s, i + Len(BotName))
  ELSE <<s[i]>> \o SubBotName_CaseSensitive(s, i + 1)

RECURSIVE SubBotName(_, _)
SubBotName(s, i) ==
  IF i > Len(s) THEN <<>>
  ELSE IF MatchAt(Lower(s), i, BotName) THEN SubBotName(s, i + Len(BotName))
  ELSE <<s[i]>> \o SubBotName(s, i + 1)

parse_grocery_list(text) ==
  LET t1 == Strip(text)
      t2 == SubMentions(t1, 1)
      t3 == SubBotName(t2, 1)
      t4 == Strip(t3)
  IN  IF \E i \in 1..Len(t4) : t4[i] = ","
        THEN StripNonEmpty(SplitChar(t4, ","))
        ELSE StripNonEmpty(SplitChar(t4, "\n"))

\* ------------------------------------------------------------ JSON values
JNull == [t |-> "null"]
JStr(s) == [t |-> "str", s |-> s]
JText(c) == [t |-> "text", c |-> c]
JNum(n) == [t |-> "num", n |-> n]
JArr == [t |-> "arr"]
JObj(o) == [t |-> "obj", o |-> o]
\* The body is not a JSON document: json.loads raises JSONDecodeError.
Malformed == [t |-> "malformed"]
\* The empty dict {}
EmptyObj == JObj(<<>>)

IsDict(v) == v.t = "obj"
\* list and dict are unhashable: `x in a_set` raises TypeError for them
Hashable(v) == v.t \notin {"arr", "obj"}
\* dict.get(key) and dict.get(key, default)
GetOr(d, key, default) == IF key \in DOMAIN d.o THEN d.o[key] ELSE default
Get(d, key) == GetOr(d, key, JNull)

\* ------------------------------------------------- request bodies (bytes)
\* A raw body is known by whether its bytes are valid UTF-8 and by the
\* document json.loads reads from it.
Body(doc) == [utf8 |-> TRUE, doc |-> doc]
BadUtf8Body == [utf8 |-> FALSE, doc |-> Malformed]

\* "<@U1> m, b"
TextTwoItems == <<"<", "@", "U", "1", ">", " ", "m", ",", " ", "b">>
\* "@Tesco-Bot e\nf"
TextLines == <<"@", "T", "e", "s", "c", "o", "-", "B", "o", "t", " ", "e", "\n", "f">>
\* "<@U1> " : a mention and nothing else
TextMentionOnly == <<"<", "@", "U", "1", ">", " ">>

\* "<@U123> milk, bread,  eggs "
TextThreeItems ==
  <<"<", "@", "U", "1", "2", "3", ">", " ", "m", "i", "l", "k", ",", " ",
    "b", "r", "e", "a", "d", ",", " ", " ", "e", "g", "g", "s", " ">>

\* What the texts given to the parser alone are made of: mentions of a user
\* with an id in capitals and with one in small letters, the opening of a
\* mention, the bot's name in two spellings, two items, the separators and
\* a blank.
ParsePieces ==
  { <<"<", "@", "U", "1", ">">>, <<"<", "@", "u", "1", ">">>, <<"<", "@">>,
    <<"@", "t", "e", "s", "c", "o", "-", "b", "o", "t">>,
    <<"@", "T", "e", "s", "c", "o", "-", "B", "O", "T">>,
    <<"m">>, <<"b">>, <<",">>, <<"\n">>, <<" ">> }

\* The texts of at most n pieces
RECURSIVE Concats(_)
Concats(n) ==
  IF n = 0 THEN {<<>>}
  ELSE LET shorter == Concats(n - 1)
       IN  shorter \cup { s \o piece : s \in shorter, piece \in ParsePieces }

ParseTexts == Concats(MaxPieces) \cup {TextThreeItems}

\* The message texts of the model, and parse_grocery_list of each, worked out
\* once.
MessageTexts == {TextTwoItems, TextLines, TextMentionOnly, <<>>}
GroceryLists == [text \in MessageTexts \cup ParseTexts |-> parse_grocery_list(text)]

Mention(text) ==
  JObj([type |-> JStr("app_mention"), text |-> text,
        channel |-> JStr("C1"), ts |-> JStr("17.1"), user |-> JStr("U9")])

EventCallback(event_id, event) ==
  JObj([type |-> JStr("event_callback"), event_id |-> event_id, event |-> event])
\* an event_callback without the key event_id (event_id reads as None)
EventCallbackNoId(event) ==
  JObj([type |-> JStr("event_callback"), event |-> event])
\* an event_callback without the key event (event reads as {})
EventCallbackNoEvent(event_id) ==
  JObj([type |-> JStr("event_callback"), event_id |-> event_id])

UrlVerification(challenge) ==
  JObj([type |-> JStr("url_verification"), challenge |-> challenge])
UrlVerificationNoChallenge == JObj([type |-> JStr("url_verification")])

\* ------------------------------------------------------------ the headers
\* request.headers.get(name, "") : the empty string when the header is absent
HEmpty == [t |-> "empty"]
\* a header value that is text but neither a number nor a signature
HWord == [t |-> "word"]
\* a decimal literal int() accepts
HInt(n) == [t |-> "int", n |-> n]
\* a decimal literal too large to convert to float
HHuge == [t |-> "huge"]
\* a header value with a character outside ASCII
HNonAscii == [t |-> "nonascii"]

\* hmac.new(key, msg, sha256).hexdigest(), idealised as collision free
HmacSha256Hex(key, msg) == [key |-> key, msg |-> msg]
\* 'v0=' + hexdigest of the base string f"v0:{timestamp}:{body}"
SignatureV0(key, timestamp, body) ==
  [t |-> "v0", mac |-> HmacSha256Hex(key, <<"v0", timestamp, body>>)]

\* An environment variable that is not set (os.getenv returns None).
Unset == "<unset>"
SigningSecret == "signing-secret"
OtherSecret == "other-secret"
BotToken == "xoxb-token"

Abs(x) == IF x < 0 THEN -x ELSE x

\* 60 * 5 of line 98
FreshnessWindow == 300

(***************************************************************************)
(* verify_slack_signature.  The result is "True", "False" or the name of   *)
(* the exception that leaves the function.  secret is the module global    *)
(* SLACK_SIGNING_SECRET and clock the value time.time() returns.           *)
(***************************************************************************)
verify_slack_signature(request_body, timestamp, signature, secret, clock) ==
  \* lines 85-87
  IF secret = Unset THEN "False"
  \* lines 90-92
  ELSE IF timestamp = HEmpty \/ signature = HEmpty THEN "False"
  \* lines 95-103: int(timestamp) raises ValueError, which is caught
  ELSE IF timestamp.t \notin {"int", "huge"} THEN "False"
  \* line 97: float - int raises OverflowError, which is not caught
  ELSE IF timestamp.t = "huge" THEN "OverflowError"
  ELSE IF Abs(clock - timestamp.n) > FreshnessWindow THEN "False"
  \* line 106: request_body.decode('utf-8')
  ELSE IF ~request_body.utf8 THEN "UnicodeDecodeError"
  \* line 116: compare_digest refuses a str with non-ASCII characters
  ELSE IF signature = HNonAscii THEN "TypeError"
  ELSE IF SignatureV0(secret, timestamp, request_body) = signature THEN "True"
  ELSE "False"

\* ------------------------------------------------- the automation result
\* "CART_URL: u"
ResultCart == <<"C", "A", "R", "T", "_", "U", "R", "L", ":", " ", "u">>
\* "x Unavailable\n CART_URL:u2 "
ResultCartMissing ==
  <<"x", " ", "U", "n", "a", "v", "a", "i", "l", "a", "b", "l", "e", "\n",
    " ", "C", "A", "R", "T", "_", "U", "R", "L", ":", "u", "2", " ">>
\* "login failed"
ResultNoCart == <<"l", "o", "g", "i", "n", " ", "f", "a", "i", "l", "e", "d">>
\* history.final_result() returns None when the agent did not finish
ResultNone == JNull

CartMarker == <<"C", "A", "R", "T", "_", "U", "R", "L", ":">>
PhraseNotAdded ==
  <<"c", "o", "u", "l", "d", " ", "n", "o", "t", " ", "b", "e", " ",
    "a", "d", "d", "e", "d">>
PhraseUnavailable == <<"u", "n", "a", "v", "a", "i", "l", "a", "b", "l", "e">>

IsCartLine_Contains(line) == Contains(line, CartMarker)

\* line.strip().startswith("CART_URL:")
IsCartLine(line) == StartsWith(Strip(line), CartMarker)
\* line.split("CART_URL:", 1)[1].strip()
CartUrlOfLine(line) ==
  LET i == CHOOSE j \in 1..Len(line) :
             MatchAt(line, j, CartMarker)
             /\ \A k \in 1..(j - 1) : ~MatchAt(line, k, CartMarker)
  IN  Strip(SubSeq(line, i + Len(CartMarker), Len(line)))
IsMissingLine_CaseSensitive(line) ==
  \/ Contains(line, PhraseNotAdded)
  \/ Contains(line, PhraseUnavailable)

\* line 229: the phrases, whatever their case
IsMissingLine(line) ==
  \/ Contains(Lower(line), PhraseNotAdded)
  \/ Contains(Lower(line), PhraseUnavailable)

\* lines 223-230: the loop over the lines; cart_url None is <<>> here, which
\* the test `if cart_url` of line 233 treats as it treats the empty string
RECURSIVE ScanLines(_, _, _)
ScanLines(lines, cart_url, missing_items) ==
  IF lines = <<>> THEN [cart_url |-> cart_url, missing_items |-> missing_items]
  ELSE IF IsCartLine(Head(lines))
    THEN ScanLines(Tail(lines), CartUrlOfLine(Head(lines)), missing_items)
  ELSE IF IsMissingLine(Head(lines))
    THEN ScanLines(Tail(lines), cart_url, Append(missing_items, Strip(Head(lines))))
  ELSE ScanLines(Tail(lines), cart_url, missing_items)

\* lines 222-240: the terminal message built from the result text
ResultMessage(result) ==
  LET scan == ScanLines(SplitChar(result, "\n"), <<>>, <<>>)
  IN  IF scan.cart_url # <<>>
        THEN [kind |-> "success", cart_url |-> scan.cart_url,
              missing_items |-> scan.missing_items]
        ELSE [kind |-> "failure", result |-> result]

\* lines 338-340: the first five items and the count of the others
AckMessage(grocery_list) ==
  [kind |-> "ack",
   items |-> SubSeq(grocery_list, 1, IF Len(grocery_list) > 5 THEN 5 ELSE Len(grocery_list)),
   more |-> IF Len(grocery_list) > 5 THEN Len(grocery_list) - 5 ELSE 0]

\* ------------------------------------------------- the webhook deliveries
Delivery(body, timestamp, signature) ==
  [body |-> body, timestamp |-> timestamp, signature |-> signature]
\* A delivery signed as Slack signs it, with key, at time stamp.
Signed(key, stamp, body) ==
  Delivery(body, HInt(stamp), SignatureV0(key, HInt(stamp), body))

Ev1 == JStr("Ev1")
Ev2 == JStr("Ev2")

\* The traffic of the concurrent specification: Slack's own deliveries, well
\* formed or not, and one forged delivery.
Deliveries ==
  { Signed(SigningSecret, 0, Body(EventCallback(Ev1, Mention(JText(TextTwoItems))))),
    Signed(SigningSecret, 0, Body(EventCallback(Ev2, Mention(JText(TextLines))))),
    Signed(SigningSecret, 0, Body(EventCallback(Ev1, Mention(JText(TextMentionOnly))))),
    Signed(SigningSecret, 0, Body(EventCallback(Ev1, JObj([type |-> JStr("message")])))),
    Signed(SigningSecret, 0, Body(EventCallbackNoId(Mention(JText(TextTwoItems))))),
    Signed(SigningSecret, 0, Body(EventCallback(Ev2, Mention(JNum(5))))),
    Signed(SigningSecret, 0, Body(EventCallback(Ev1, JNull))),
    Signed(SigningSecret, 0, Body(UrlVerification(JStr("abc123")))),
    Signed(SigningSecret, 0, Body(UrlVerification(JNum(7)))),
    Signed(SigningSecret, 0, Body(UrlVerificationNoChallenge)),
    Signed(SigningSecret, 0, Body(JObj([type |-> JStr("app_rate_limited")]))),
    Signed(SigningSecret, 0, Body(Malformed)),
    Signed(SigningSecret, 0, Body(JArr)),
    Signed(OtherSecret, 0, Body(EventCallback(Ev1, Mention(JText(TextTwoItems))))) }

\* The inputs of the one-request specification: every combination of a body,
\* a timestamp header and a signature header.
Documents ==
  { Malformed, JArr, JNull,
    UrlVerification(JStr("abc123")), UrlVerification(JNum(7)),
    UrlVerificationNoChallenge,
    JObj([type |-> JStr("app_rate_limited")]), JObj([challenge |-> JStr("abc123")]) }
  \cup { EventCallback(id, ev) :
           id \in {Ev1, JNull, JArr},
           ev \in { JNull, JObj([type |-> JStr("message")]),
                    Mention(JText(TextTwoItems)), Mention(JText(TextMentionOnly)),
                    Mention(JNum(5)) } }
  \cup { EventCallbackNoId(Mention(JText(TextLines))), EventCallbackNoEvent(Ev1) }

Bodies == {BadUtf8Body} \cup { Body(doc) : doc \in Documents }

Timestamps ==
  { HEmpty, HWord, HHuge }
  \cup { HInt(n) : n \in { -(FreshnessWindow + 1), -FreshnessWindow, 0,
                           MaxTicks + FreshnessWindow } }

\* The signature headers a sender may attach to body and timestamp: none, Slack's,
\* one made with another key, one Slack made for another timestamp, other text.
SignaturesFor(body, timestamp) ==
  { HEmpty, HWord, HNonAscii,
    SignatureV0(SigningSecret, timestamp, body),
    SignatureV0(OtherSecret, timestamp, body),
    SignatureV0(SigningSecret, HInt(-2 * FreshnessWindow), body) }

AllDeliveries ==
  UNION { { Delivery(b, ts, sg) : sg \in SignaturesFor(b, ts) } :
            b \in Bodies, ts \in Timestamps }

\* ------------------------------------------------------------- the handler
\* Response bodies
NoContent == [t |-> "none"]
TextContent(s) == [t |-> "text", s |-> s]
JsonContent(o) == [t |-> "json", o |-> o]

\* An exception that leaves slack_events: the framework answers 500.
InternalServerError == 500

\* What one run of slack_events does up to its return or its first call of
\* post_to_slack: the result of the signature check, the dedup gate's verdict,
\* the new processed_events, the response (status 0: none yet) and what
\* follows ("done", "help" or "ack").
Outcome(verified, gate, processed, status, content, next) ==
  [verified |-> verified, gate |-> gate, processed |-> processed,
   status |-> status, content |-> content, next |-> next]

\* line 308: processed_events.add(event_id)
MarkProcessed_Forgets(processed, event_id) == processed

MarkProcessed_KeepsLatest(processed, event_id) == {event_id}

MarkProcessed(processed, event_id) == processed \cup {event_id}

\* lines 311-362, after the event has been marked
HandleEvent_NoEmptyCheck(event, processed) ==
  IF Get(event, "type") = JStr("app_mention")
    THEN IF GetOr(event, "text", JText(<<>>)).t # "text"
           THEN Outcome("True", "passed", processed, InternalServerError,
                        NoContent, "done")
           ELSE Outcome("True", "passed", processed, 0, NoContent, "ack")
    ELSE Outcome("True", "passed", processed, 200, NoContent, "done")

HandleEvent(event, processed) ==
  IF Get(event, "type") = JStr("app_mention")
    THEN LET text == GetOr(event, "text", JText(<<>>))
         IN  \* line 321: text[:100], line 133: text.strip()
             IF text.t # "text"
               THEN Outcome("True", "passed", processed, InternalServerError,
                            NoContent, "done")
             \* line 324: parse_grocery_list(text)
             ELSE IF GroceryLists[text.c] = <<>>
               THEN Outcome("True", "passed", processed, 0, NoContent, "help")
             ELSE Outcome("True", "passed", processed, 0, NoContent, "ack")
    ELSE Outcome("True", "passed", processed, 200, NoContent, "done")

\* lines 293-309
HandleEventCallback_NoDupCheck(data, processed) ==
  LET event == GetOr(data, "event", EmptyObj)
      event_id == Get(data, "event_id")
  IN  IF ~IsDict(event)
        THEN Outcome("True", "-", processed, InternalServerError, NoContent, "done")
      ELSE IF ~Hashable(event_id)
        THEN Outcome("True", "-", processed, InternalServerError, NoContent, "done")
      ELSE LET out == HandleEvent(event, MarkProcessed(processed, event_id))
           IN  IF event_id \in processed THEN [out EXCEPT !.gate = "dup"] ELSE out

HandleEventCallback_MarksOrdersOnly(data, processed) ==
  LET event == GetOr(data, "event", EmptyObj)
      event_id == Get(data, "event_id")
  IN  IF ~IsDict(event)
        THEN Outcome("True", "-", processed, InternalServerError, NoContent, "done")
      ELSE IF ~Hashable(event_id)
        THEN Outcome("True", "-", processed, InternalServerError, NoContent, "done")
      ELSE IF event_id \in processed
        THEN Outcome("True", "dup", processed, 200, NoContent, "done")
      ELSE LET out == HandleEvent(event, processed)
           IN  IF out.next = "ack"
                 THEN [out EXCEPT !.processed = MarkProcessed(processed, event_id)]
                 ELSE out

HandleEventCallback_NoGateWithoutId(data, processed) ==
  LET event == GetOr(data, "event", EmptyObj)
      event_id == Get(data, "event_id")
  IN  IF ~IsDict(event)
        THEN Outcome("True", "-", processed, InternalServerError, NoContent, "done")
      ELSE IF ~Hashable(event_id)
        THEN Outcome("True", "-", processed, InternalServerError, NoContent, "done")
      ELSE IF event_id # JNull /\ event_id \in processed
        THEN Outcome("True", "dup", processed, 200, NoContent, "done")
      ELSE HandleEvent(event, MarkProcessed(processed, event_id))

HandleEventCallback(data, processed) ==
  LET event == GetOr(data, "event", EmptyObj)
      event_id == Get(data, "event_id")
  IN  \* line 296: event.get
      IF ~IsDict(event)
        THEN Outcome("True", "-", processed, InternalServerError, NoContent, "done")
      \* line 303: event_id in processed_events
      ELSE IF ~Hashable(event_id)
        THEN Outcome("True", "-", processed, InternalServerError, NoContent, "done")
      ELSE IF event_id \in processed
        THEN Outcome("True", "dup", processed, 200, NoContent, "done")
      ELSE HandleEvent(event, MarkProcessed(processed, event_id))

\* lines 278-362, after the signature has been verified
HandleVerified_DedupsEveryType(body, processed) ==
  LET data == body.doc
  IN  IF data = Malformed
        THEN Outcome("True", "-", processed, 400, TextContent("Invalid JSON"), "done")
      ELSE IF ~IsDict(data)
        THEN Outcome("True", "-", processed, InternalServerError, NoContent, "done")
      ELSE IF Get(data, "event_id") \in processed
        THEN Outcome("True", "dup", processed, 200, NoContent, "done")
      ELSE IF Get(data, "type") = JStr("url_verification")
        THEN Outcome("True", "-", MarkProcessed(processed, Get(data, "event_id")), 200,
                     JsonContent([challenge |-> Get(data, "challenge")]), "done")
      ELSE IF Get(data, "type") = JStr("event_callback")
        THEN HandleEventCallback(data, processed)
      ELSE Outcome("True", "-", processed, 200, NoContent, "done")

HandleVerified(body, processed) ==
  LET data == body.doc
  IN  IF data = Malformed
        THEN Outcome("True", "-", processed, 400, TextContent("Invalid JSON"), "done")
      \* line 281: data.get
      ELSE IF ~IsDict(data)
        THEN Outcome("True", "-", processed, InternalServerError, NoContent, "done")
      ELSE IF Get(data, "type") = JStr("url_verification")
        THEN Outcome("True", "-", processed, 200,
                     JsonContent([challenge |-> Get(data, "challenge")]), "done")
      ELSE IF Get(data, "type") = JStr("event_callback")
        THEN HandleEventCallback(data, processed)
      ELSE Outcome("True", "-", processed, 200, NoContent, "done")

\* lines 261-362
slack_events_GoesOnAfterReject(req, secret, clock, processed) ==
  LET v == verify_slack_signature(req.body, req.timestamp, req.signature, secret, clock)
  IN  [HandleVerified(req.body, processed) EXCEPT !.verified = v]

slack_events_MarksRejected(req, secret, clock, processed) ==
  LET v == verify_slack_signature(req.body, req.timestamp, req.signature, secret, clock)
      data == req.body.doc
  IN  IF v = "True" THEN HandleVerified(req.body, processed)
      ELSE IF v = "False"
        THEN Outcome(v, "-",
                     IF IsDict(data) /\ Get(data, "type") = JStr("event_callback")
                       THEN MarkProcessed(processed, Get(data, "event_id"))
                       ELSE processed,
                     401, TextContent("Invalid signature"), "done")
      ELSE Outcome(v, "-", processed, InternalServerError, NoContent, "done")

slack_events(req, secret, clock, processed) ==
  LET v == verify_slack_signature(req.body, req.timestamp, req.signature, secret, clock)
  IN  IF v = "True" THEN HandleVerified(req.body, processed)
      ELSE IF v = "False"
        THEN Outcome(v, "-", processed, 401, TextContent("Invalid signature"), "done")
      ELSE Outcome(v, "-", processed, InternalServerError, NoContent, "done")

\* The inner event of a request that reached the parser, and what the handler
\* keeps of it across its await.
EventOf(req) == GetOr(req.body.doc, "event", EmptyObj)
EventIdOf(req) == Get(req.body.doc, "event_id")
GroceryListOf(req) == GroceryLists[GetOr(EventOf(req), "text", JText(<<>>)).c]

HelpMessage == [kind |-> "help"]

\* What the HTTP exchange of lines 181-185 meets: Slack answers ok, Slack
\* answers {"ok": false}, Slack answers an error status, the connection
\* fails, the answer is not a JSON object.
AllReplies == {"ok", "not_ok", "http_error", "transport_error", "not_json"}
\* The replies of the concurrent specification
Replies == {"ok"}

\* The exception lines 181-185 raise on a reply, "none" when they raise none
PostFault(reply) ==
  CASE reply = "transport_error" -> "RequestError"     \* line 181
    [] reply = "http_error" -> "HTTPStatusError"       \* line 182
    [] reply = "not_json" -> "ValueError"              \* lines 183, 185
    [] OTHER -> "none"

\* What `except Exception` takes, of what lines 181-185 raise
Exceptions == {"RequestError", "HTTPStatusError", "ValueError"}

\* lines 159-190.  attempts: how many times client.post was called; raised:
\* the exception that leaves the function, "none" when it returns; ok: Slack
\* took the message.
post_to_slack_CatchesTransportOnly(token, reply) ==
  IF token = Unset THEN [attempts |-> 0, raised |-> "none", ok |-> FALSE]
  ELSE [attempts |-> 1,
        raised |-> IF PostFault(reply) = "RequestError" THEN "none" ELSE PostFault(reply),
        ok |-> reply = "ok"]

post_to_slack(token, reply) ==
  \* line 161: no token, no request
  IF token = Unset THEN [attempts |-> 0, raised |-> "none", ok |-> FALSE]
  \* line 189: except Exception takes whatever lines 181-185 raised
  ELSE [attempts |-> 1,
        raised |-> IF PostFault(reply) \in Exceptions THEN "none" ELSE PostFault(reply),
        ok |-> reply = "ok"]

\* One call of post_to_slack by the handler or the task of req: the message,
\* its channel and thread, whether a request was sent, and how the call ended.
Post(msg, req, token, reply) ==
  LET call == post_to_slack(token, reply)
  IN  [msg |-> msg, channel |-> Get(EventOf(req), "channel"),
       thread_ts |-> Get(EventOf(req), "ts"), sent |-> call.attempts > 0,
       attempts |-> call.attempts, raised |-> call.raised, ok |-> call.ok]

\* --------------------------------------------------------- configuration
\* What run_groceries reads from os.environ at each call (tesco_groceries.py
\* lines 158-161); os.getenv gives None for a variable that is not set.
Environ(api_key, email, password) ==
  [BROWSER_USE_API_KEY |-> api_key, TESCO_EMAIL |-> email, TESCO_PASSWORD |-> password]
FullEnviron == Environ("bu-key", "me@example.com", "pw")
Environs ==
  { Environ(k, e, p) : k \in {"bu-key", Unset}, e \in {"me@example.com", Unset},
                       p \in {"pw", Unset} }
\* The environments of the concurrent specification
SomeEnvirons == {FullEnviron, Environ(Unset, "me@example.com", "pw")}

\* tesco_groceries.py lines 169-184: run_groceries raises ValueError
MissingAutomationConfig(env) ==
  \/ env.BROWSER_USE_API_KEY = Unset
  \/ env.TESCO_EMAIL = Unset \/ env.TESCO_PASSWORD = Unset

\* slack_server.py lines 396-401: what __main__ requires before uvicorn.run
MainValidates(secret, token, env) == secret # Unset /\ token # Unset

\* -------------------------------------------------------------- the state
Reqs == 1..MaxReqs
NoRequest == [t |-> "none"]
NoMessage == [kind |-> "none"]
\* What run_groceries gave the task: nothing yet, an exception, or its result
NoResult == [t |-> "none"]
Raised == [t |-> "raised"]
\* The arguments of run_grocery_automation_background (line 193); NoArgs while
\* there is no task.
NoArgs == [grocery_list |-> <<>>, channel |-> JNull, thread_ts |-> JNull]
\* lines 312-314, 324 and 352: what the handler binds to the task it creates
TaskArgs(req) ==
  [grocery_list |-> GroceryListOf(req),
   channel |-> Get(EventOf(req), "channel"),
   thread_ts |-> Get(EventOf(req), "ts")]
\* A background task: its arguments (line 218 hands grocery_list on to
\* run_groceries), where it is, the flag of tesco_groceries.py line 253,
\* whether the live-preview callback raised, what run_groceries gave, and the
\* message of its last call of post_to_slack.
NoTask ==
  [args |-> NoArgs, st |-> "none",
   live_url_captured |-> FALSE, callback_raised |-> FALSE,
   result |-> NoResult, msg |-> NoMessage]
ScheduledTask == [NoTask EXCEPT !.st = "scheduled"]

VARIABLES
  SLACK_SIGNING_SECRET,  \* the module global of line 58
  SLACK_BOT_TOKEN,       \* the module global of line 59
  environ,               \* the environment variables of the automation
  server,                \* "starting", "serving" (socket bound) or "aborted"
  processed_events,      \* the module global of line 55
  now,                   \* time.time(), in seconds
  pc,                    \* where each handler is
  request,               \* the delivery each handler serves
  verified,              \* what verify_slack_signature returned to it
  gate,                  \* what the dedup gate decided for it
  status,                \* the status of its response, 0 while there is none
  content,               \* the body of its response
  posts,                 \* the calls of post_to_slack made for it, in order
  task,                  \* the background task created for it
  runs                   \* how many times run_groceries was called for it

vars == <<SLACK_SIGNING_SECRET, SLACK_BOT_TOKEN, environ, server,
          processed_events, now, pc, request, verified, gate, status, content,
          posts, task, runs>>

config == <<SLACK_SIGNING_SECRET, SLACK_BOT_TOKEN, environ, server>>

InitRequests ==
  /\ processed_events = {}
  /\ now = 0
  /\ pc = [r \in Reqs |-> "idle"]
  /\ request = [r \in Reqs |-> NoRequest]
  /\ verified = [r \in Reqs |-> "-"]
  /\ gate = [r \in Reqs |-> "-"]
  /\ status = [r \in Reqs |-> 0]
  /\ content = [r \in Reqs |-> NoContent]
  /\ posts = [r \in Reqs |-> <<>>]
  /\ task = [r \in Reqs |-> NoTask]
  /\ runs = [r \in Reqs |-> 0]

\* The process as `python slack_server.py` starts it: lines 396-401 have seen
\* the signing secret and the bot token.
Init ==
  /\ SLACK_SIGNING_SECRET = SigningSecret
  /\ SLACK_BOT_TOKEN = BotToken
  /\ environ \in SomeEnvirons
  /\ server = "serving"
  /\ InitRequests

\* The app served without the checks of __main__ (an ASGI server importing
\* slack_server:app): either value may be missing.
InitAnyConfig ==
  /\ SLACK_SIGNING_SECRET \in {SigningSecret, Unset}
  /\ SLACK_BOT_TOKEN \in {BotToken, Unset}
  /\ environ \in Environs
  /\ server = "serving"
  /\ InitRequests

\* `python slack_server.py` before line 396: the module globals and the
\* environment are whatever the deployment set.
InitStart ==
  /\ SLACK_SIGNING_SECRET \in {SigningSecret, Unset}
  /\ SLACK_BOT_TOKEN \in {BotToken, Unset}
  /\ environ \in Environs
  /\ server = "starting"
  /\ InitRequests

\* ------------------------------------------------------------ the actions
\* The clock advances by one second.
Tick ==
  /\ now < MaxTicks
  /\ now' = now + 1
  /\ UNCHANGED <<config, processed_events, pc, request, verified, gate, status,
                 content, posts, task, runs>>

\* Lines 390-408: __main__ checks the configuration and raises ValueError or
\* calls uvicorn.run, which binds the socket.
Main ==
  /\ server = "starting"
  /\ server' = IF MainValidates(SLACK_SIGNING_SECRET, SLACK_BOT_TOKEN, environ)
                 THEN "serving" ELSE "aborted"
  /\ UNCHANGED <<SLACK_SIGNING_SECRET, SLACK_BOT_TOKEN, environ, processed_events,
                 now, pc, request, verified, gate, status, content, posts, task, runs>>

\* A delivery reaches the endpoint; the handler waits for the body (line 262).
Arrive(r, d) ==
  /\ server = "serving"
  /\ pc[r] = "idle"
  /\ \A q \in Reqs : q < r => pc[q] # "idle"
  /\ pc' = [pc EXCEPT ![r] = "body"]
  /\ request' = [request EXCEPT ![r] = d]
  /\ UNCHANGED <<config, processed_events, now, verified, gate, status, content,
                 posts, task, runs>>

\* Lines 263-356 up to the first suspension.  post_to_slack suspends only when
\* the token is set; with no token the handler runs on to its return.
Handle(r) ==
  /\ pc[r] = "body"
  /\ LET out == slack_events(request[r], SLACK_SIGNING_SECRET, now, processed_events)
         through == SLACK_BOT_TOKEN = Unset
     IN  /\ verified' = [verified EXCEPT ![r] = out.verified]
         /\ gate' = [gate EXCEPT ![r] = out.gate]
         /\ processed_events' = out.processed
         /\ content' = [content EXCEPT ![r] = out.content]
         /\ IF out.next = "done"
              THEN /\ pc' = [pc EXCEPT ![r] = "done"]
                   /\ status' = [status EXCEPT ![r] = out.status]
                   /\ UNCHANGED <<posts, task>>
            ELSE IF ~through
              THEN /\ pc' = [pc EXCEPT ![r] = out.next]
                   /\ UNCHANGED <<status, posts, task>>
            ELSE /\ pc' = [pc EXCEPT ![r] = "done"]
                 /\ status' = [status EXCEPT ![r] = 200]
                 /\ posts' = [posts EXCEPT ![r] = Append(@,
                       Post(IF out.next = "help" THEN HelpMessage
                            ELSE AckMessage(GroceryListOf(request[r])),
                            request[r], SLACK_BOT_TOKEN, "ok"))]
                 /\ task' = [task EXCEPT ![r] =
                       IF out.next = "ack"
                         THEN [ScheduledTask EXCEPT !.args = TaskArgs(request[r])]
                         ELSE @]
  /\ UNCHANGED <<config, now, request, runs>>

\* Lines 330-335: the call of post_to_slack has ended; the handler returns
\* (an exception out of the call would leave the handler: 500).
HelpPosted(r, reply) ==
  /\ pc[r] = "help"
  /\ LET p == Post(HelpMessage, request[r], SLACK_BOT_TOKEN, reply)
     IN  /\ posts' = [posts EXCEPT ![r] = Append(@, p)]
         /\ status' = [status EXCEPT ![r] =
               IF p.raised = "none" THEN 200 ELSE InternalServerError]
  /\ pc' = [pc EXCEPT ![r] = "done"]
  /\ UNCHANGED <<config, processed_events, now, request, verified, gate, content,
                 task, runs>>

\* Lines 343-356: the acknowledgment's call of post_to_slack has ended; the
\* handler creates the background task and returns without awaiting it.
AckPosted_AwaitsTask(r, reply) ==
  /\ pc[r] = "ack"
  /\ IF task[r].st = "none"
       THEN /\ posts' = [posts EXCEPT ![r] = Append(@,
                  Post(AckMessage(GroceryListOf(request[r])), request[r],
                       SLACK_BOT_TOKEN, reply))]
            /\ task' = [task EXCEPT ![r] = ScheduledTask]
            /\ UNCHANGED <<status, pc>>
       ELSE /\ task[r].st = "done"
            /\ status' = [status EXCEPT ![r] = 200]
            /\ pc' = [pc EXCEPT ![r] = "done"]
            /\ UNCHANGED <<posts, task>>
  /\ UNCHANGED <<config, processed_events, now, request, verified, gate, content, runs>>

AckPosted_BehindOtherRuns(r, reply) ==
  /\ pc[r] = "ack"
  /\ \A q \in Reqs : task[q].st \notin {"scheduled", "running", "live", "posting"}
  /\ posts' = [posts EXCEPT ![r] = Append(@,
        Post(AckMessage(GroceryListOf(request[r])), request[r], SLACK_BOT_TOKEN, reply))]
  /\ task' = [task EXCEPT ![r] = ScheduledTask]
  /\ status' = [status EXCEPT ![r] = 200]
  /\ pc' = [pc EXCEPT ![r] = "done"]
  /\ UNCHANGED <<config, processed_events, now, request, verified, gate, content, runs>>

AckPosted_DispatchesIfDelivered(r, reply) ==
  /\ pc[r] = "ack"
  /\ LET p == Post(AckMessage(GroceryListOf(request[r])), request[r],
                   SLACK_BOT_TOKEN, reply)
     IN  /\ posts' = [posts EXCEPT ![r] = Append(@, p)]
         /\ task' = [task EXCEPT ![r] =
               IF p.ok THEN [ScheduledTask EXCEPT !.args = TaskArgs(request[r])]
               ELSE @]
         /\ status' = [status EXCEPT ![r] = 200]
  /\ pc' = [pc EXCEPT ![r] = "done"]
  /\ UNCHANGED <<config, processed_events, now, request, verified, gate, content, runs>>

AckPosted(r, reply) ==
  /\ pc[r] = "ack"
  /\ LET p == Post(AckMessage(GroceryListOf(request[r])), request[r],
                   SLACK_BOT_TOKEN, reply)
     IN  /\ posts' = [posts EXCEPT ![r] = Append(@, p)]
         /\ IF p.raised = "none"
              \* line 351: asyncio.create_task
              THEN /\ task' = [task EXCEPT ![r] =
                         [ScheduledTask EXCEPT !.args = TaskArgs(request[r])]]
                   /\ status' = [status EXCEPT ![r] = 200]
              ELSE /\ status' = [status EXCEPT ![r] = InternalServerError]
                   /\ UNCHANGED task
  /\ pc' = [pc EXCEPT ![r] = "done"]
  /\ UNCHANGED <<config, processed_events, now, request, verified, gate, content, runs>>

handler_vars == <<config, processed_events, now, pc, request, verified, gate,
                  status, content>>

ErrorMessage(error) == [kind |-> "error", error |-> error]

\* The task calls post_to_slack with its last message, msg (line 243 or line
\* 251); result is what run_groceries gave.
TerminalPost(r, msg, result) ==
  IF SLACK_BOT_TOKEN = Unset
    THEN /\ posts' = [posts EXCEPT ![r] = Append(@,
               Post(msg, request[r], SLACK_BOT_TOKEN, "ok"))]
         /\ task' = [task EXCEPT ![r].st = "done", ![r].msg = msg, ![r].result = result]
    ELSE /\ task' = [task EXCEPT ![r].st = "posting", ![r].msg = msg,
                                 ![r].result = result]
         /\ UNCHANGED posts

\* The event loop starts the task: lines 202-218 and run_groceries up to
\* agent.run, which raises ValueError when its configuration is missing
\* (tesco_groceries.py lines 169-184).
TaskStart_BeforeAck(r) ==
  /\ task[r].st = "scheduled" \/ (task[r].st = "none" /\ pc[r] = "ack")
  /\ task' = [task EXCEPT ![r] = [ScheduledTask EXCEPT !.st = "running"]]
  /\ runs' = [runs EXCEPT ![r] = @ + 1]
  /\ UNCHANGED <<handler_vars, posts>>

TaskStart(r) ==
  /\ task[r].st = "scheduled"
  /\ runs' = [runs EXCEPT ![r] = @ + 1]
  /\ IF MissingAutomationConfig(environ)
       THEN TerminalPost(r, ErrorMessage("ValueError"), Raised)
       ELSE /\ task' = [task EXCEPT ![r].st = "running"]
            /\ UNCHANGED posts
  /\ UNCHANGED handler_vars

\* tesco_groceries.py lines 257-283: the agent starts a step.  has_cdp: the
\* browser session exists and its cdp_url holds 'wss://'.
StepStart_EveryStep(r, has_cdp) ==
  /\ task[r].st = "running"
  /\ IF ~has_cdp
       THEN UNCHANGED <<task, posts>>
     ELSE IF SLACK_BOT_TOKEN = Unset
       THEN /\ posts' = [posts EXCEPT ![r] = Append(@,
                  Post([kind |-> "live"], request[r], SLACK_BOT_TOKEN, "ok"))]
            /\ task' = [task EXCEPT ![r].live_url_captured = TRUE]
     ELSE /\ task' = [task EXCEPT ![r].st = "live"]
          /\ UNCHANGED posts
  /\ UNCHANGED <<handler_vars, runs>>

StepStart(r, has_cdp) ==
  /\ task[r].st = "running"
  /\ IF task[r].live_url_captured \/ ~has_cdp
       THEN UNCHANGED <<task, posts>>
     ELSE IF SLACK_BOT_TOKEN = Unset
       THEN /\ posts' = [posts EXCEPT ![r] = Append(@,
                  Post([kind |-> "live"], request[r], SLACK_BOT_TOKEN, "ok"))]
            /\ task' = [task EXCEPT ![r].live_url_captured = TRUE]
     ELSE /\ task' = [task EXCEPT ![r].st = "live"]
          /\ UNCHANGED posts
  /\ UNCHANGED <<handler_vars, runs>>

\* slack_server.py lines 211-216 and tesco_groceries.py lines 275-283: the
\* callback's call of post_to_slack has ended; the step goes on.
LivePosted(r, reply) ==
  /\ task[r].st = "live"
  /\ LET p == Post([kind |-> "live"], request[r], SLACK_BOT_TOKEN, reply)
     IN  /\ posts' = [posts EXCEPT ![r] = Append(@, p)]
         /\ task' = [task EXCEPT ![r].st = "running", ![r].live_url_captured = TRUE,
                                 ![r].callback_raised = @ \/ p.raised # "none"]
  /\ UNCHANGED <<handler_vars, runs>>

\* tesco_groceries.py lines 274-283: the await of the callback ends with an
\* exception; on_step_start logs it, sets the flag and the step goes on.
LiveCallbackRaises(r) ==
  /\ task[r].st = "live"
  /\ task' = [task EXCEPT ![r].st = "running", ![r].live_url_captured = TRUE,
                          ![r].callback_raised = TRUE]
  /\ UNCHANGED <<handler_vars, posts, runs>>

\* "CART_URL:"
ResultCartBlank == <<"C", "A", "R", "T", "_", "U", "R", "L", ":">>
\* "CART_URL:unavailable"
ResultCartUnavailable ==
  <<"C", "A", "R", "T", "_", "U", "R", "L", ":",
    "u", "n", "a", "v", "a", "i", "l", "a", "b", "l", "e">>
\* "CART_URL:a\nCART_URL:b"
ResultTwoCarts ==
  <<"C", "A", "R", "T", "_", "U", "R", "L", ":", "a", "\n",
    "C", "A", "R", "T", "_", "U", "R", "L", ":", "b">>
\* "CART_URL:a\nCART_URL: "
ResultCartThenBlank ==
  <<"C", "A", "R", "T", "_", "U", "R", "L", ":", "a", "\n",
    "C", "A", "R", "T", "_", "U", "R", "L", ":", " ">>
\* "x CART_URL:u"
ResultMarkerInside ==
  <<"x", " ", "C", "A", "R", "T", "_", "U", "R", "L", ":", "u">>

\* What history.final_result() may be: every case in the one-request
\* specifications, a cart and no cart in the concurrent one.
ResultTexts ==
  { ResultCart, ResultCartMissing, ResultNoCart, ResultCartBlank,
    ResultCartUnavailable, ResultTwoCarts, ResultCartThenBlank,
    ResultMarkerInside, <<>> }
AllResults == { JText(text) : text \in ResultTexts } \cup {ResultNone}
Results == {JText(ResultCart), JText(ResultNoCart)}

ResultMessages == [text \in ResultTexts |-> ResultMessage(text)]

\* agent.run returns and history.final_result() is result: tesco_groceries.py
\* lines 292-323 (len(None) raises TypeError), slack_server.py lines 219-243
AgentReturns(r, result) ==
  /\ task[r].st = "running"
  /\ IF result = ResultNone
       THEN TerminalPost(r, ErrorMessage("TypeError"), Raised)
       ELSE TerminalPost(r, ResultMessages[result.c], result)
  /\ UNCHANGED <<handler_vars, runs>>

\* run_groceries raises: slack_server.py lines 246-251
AgentRaises_Unobserved(r) ==
  /\ task[r].st = "running"
  /\ task' = [task EXCEPT ![r].st = "done", ![r].result = Raised]
  /\ UNCHANGED <<handler_vars, posts, runs>>

AgentRaises(r) ==
  /\ task[r].st = "running"
  /\ TerminalPost(r, ErrorMessage("Exception"), Raised)
  /\ UNCHANGED <<handler_vars, runs>>

\* slack_server.py lines 243-244 and 251: the last call of post_to_slack has
\* ended.  An exception out of the call of line 243 would be taken by line
\* 246 and reported by line 251; one out of line 251 would end the task.
TerminalPosted(r, reply) ==
  /\ task[r].st = "posting"
  /\ LET p == Post(task[r].msg, request[r], SLACK_BOT_TOKEN, reply)
     IN  /\ posts' = [posts EXCEPT ![r] = Append(@, p)]
         /\ task' = [task EXCEPT ![r] =
               IF p.raised = "none" THEN [@ EXCEPT !.st = "done"]
               ELSE IF @.msg.kind # "error"
                 THEN [@ EXCEPT !.msg = ErrorMessage(p.raised), !.result = Raised]
               ELSE [@ EXCEPT !.st = "failed"]]
  /\ UNCHANGED <<handler_vars, runs>>

\* Concurrent deliveries.  The clock stands still: the deliveries carry the
\* timestamp of the moment they are handled, and what the passing of time
\* does to a request is the one-request specification's matter.
Next ==
  \/ \E r \in Reqs, d \in Deliveries : Arrive(r, d)
  \/ \E r \in Reqs : Handle(r)
  \/ \E r \in Reqs, reply \in Replies : HelpPosted(r, reply)
  \/ \E r \in Reqs, reply \in Replies : AckPosted(r, reply)
  \/ \E r \in Reqs : TaskStart(r)
  \/ \E r \in Reqs, has_cdp \in BOOLEAN : StepStart(r, has_cdp)
  \/ \E r \in Reqs, reply \in Replies : LivePosted(r, reply)
  \/ \E r \in Reqs : LiveCallbackRaises(r)
  \/ \E r \in Reqs, result \in Results : AgentReturns(r, result)
  \/ \E r \in Reqs : AgentRaises(r)
  \/ \E r \in Reqs, reply \in Replies : TerminalPosted(r, reply)

Spec == Init /\ [][Next]_vars

\* One request, any configuration, every combination of body and headers,
\* every result of the automation and every reply of Slack.
NextOne ==
  \/ Tick
  \/ \E d \in AllDeliveries : Arrive(1, d)
  \/ Handle(1)
  \/ \E reply \in AllReplies : HelpPosted(1, reply)
  \/ \E reply \in AllReplies : AckPosted(1, reply)
  \/ TaskStart(1)
  \/ \E has_cdp \in BOOLEAN : StepStart(1, has_cdp)
  \/ \E reply \in AllReplies : LivePosted(1, reply)
  \/ LiveCallbackRaises(1)
  \/ \E result \in AllResults : AgentReturns(1, result)
  \/ AgentRaises(1)
  \/ \E reply \in AllReplies : TerminalPosted(1, reply)

SpecOne == InitAnyConfig /\ [][NextOne]_vars

\* The process from `python slack_server.py` on: the checks of __main__, then
\* one request.
NextStart ==
  \/ Main
  \/ \E d \in Deliveries : Arrive(1, d)
  \/ Handle(1)
  \/ \E reply \in Replies : HelpPosted(1, reply)
  \/ \E reply \in Replies : AckPosted(1, reply)
  \/ TaskStart(1)
  \/ \E has_cdp \in BOOLEAN : StepStart(1, has_cdp)
  \/ \E reply \in Replies : LivePosted(1, reply)
  \/ LiveCallbackRaises(1)
  \/ \E result \in Results : AgentReturns(1, result)
  \/ AgentRaises(1)
  \/ \E reply \in Replies : TerminalPosted(1, reply)

SpecStart == InitStart /\ [][NextStart]_vars

\* The event loop runs every handler that can run, and a call of post_to_slack
\* ends (httpx gives up after its timeout).  Nothing is assumed of the
\* automation: a run may never start a step or never return.  The traffic is
\* the mentions: two orders with different event ids, and a mention with no
\* item that replays the id of the first.
OrderDeliveries ==
  { Signed(SigningSecret, 0, Body(EventCallback(Ev1, Mention(JText(TextTwoItems))))),
    Signed(SigningSecret, 0, Body(EventCallback(Ev2, Mention(JText(TextLines))))),
    Signed(SigningSecret, 0, Body(EventCallback(Ev1, Mention(JText(TextMentionOnly))))) }

NextFair ==
  \/ \E r \in Reqs, d \in OrderDeliveries : Arrive(r, d)
  \/ \E r \in Reqs : Handle(r)
  \/ \E r \in Reqs, reply \in Replies : HelpPosted(r, reply)
  \/ \E r \in Reqs, reply \in Replies : AckPosted(r, reply)
  \/ \E r \in Reqs : TaskStart(r)
  \/ \E r \in Reqs, has_cdp \in BOOLEAN : StepStart(r, has_cdp)
  \/ \E r \in Reqs, reply \in Replies : LivePosted(r, reply)
  \/ \E r \in Reqs : LiveCallbackRaises(r)
  \/ \E r \in Reqs, result \in Results : AgentReturns(r, result)
  \/ \E r \in Reqs : AgentRaises(r)
  \/ \E r \in Reqs, reply \in Replies : TerminalPosted(r, reply)

FairSpec ==
  /\ Init /\ [][NextFair]_vars
  /\ \A r \in Reqs :
       /\ WF_vars(Handle(r))
       /\ WF_vars(\E reply \in Replies : HelpPosted(r, reply))
       /\ WF_vars(\E reply \in Replies : AckPosted(r, reply))
       /\ WF_vars(\E reply \in Replies : TerminalPosted(r, reply))

\* The same scheduling with Slack's every reply to the acknowledgment, and
\* the event loop starting each task it was given (asyncio.create_task
\* schedules the coroutine for the loop's next turn).  The agent, when it
\* returns, returns a cart.
DispatchResults == {JText(ResultCart)}

NextDispatch ==
  \/ \E r \in Reqs, d \in OrderDeliveries : Arrive(r, d)
  \/ \E r \in Reqs : Handle(r)
  \/ \E r \in Reqs, reply \in Replies : HelpPosted(r, reply)
  \/ \E r \in Reqs, reply \in AllReplies : AckPosted(r, reply)
  \/ \E r \in Reqs : TaskStart(r)
  \/ \E r \in Reqs, has_cdp \in BOOLEAN : StepStart(r, has_cdp)
  \/ \E r \in Reqs, reply \in Replies : LivePosted(r, reply)
  \/ \E r \in Reqs : LiveCallbackRaises(r)
  \/ \E r \in Reqs, result \in DispatchResults : AgentReturns(r, result)
  \/ \E r \in Reqs : AgentRaises(r)
  \/ \E r \in Reqs, reply \in Replies : TerminalPosted(r, reply)

DispatchSpec ==
  /\ Init /\ [][NextDispatch]_vars
  /\ \A r \in Reqs :
       /\ WF_vars(Handle(r))
       /\ WF_vars(\E reply \in Replies : HelpPosted(r, reply))
       /\ WF_vars(\E reply \in AllReplies : AckPosted(r, reply))
       /\ WF_vars(TaskStart(r))

\* Slack delivers one event again and again (it retries what it took for
\* undelivered): as an order, as a mention with no item, as an event that is
\* no mention; two other mentions come without event_id; and Slack may refuse
\* or miss the handler's posts.
RetryDeliveries ==
  { Signed(SigningSecret, 0, Body(EventCallback(Ev1, Mention(JText(TextTwoItems))))),
    Signed(SigningSecret, 0, Body(EventCallback(Ev1, Mention(JText(TextMentionOnly))))),
    Signed(SigningSecret, 0, Body(EventCallback(Ev1, JObj([type |-> JStr("message")])))),
    Signed(SigningSecret, 0, Body(EventCallback(Ev1, Mention(JNum(5))))),
    Signed(SigningSecret, 0, Body(EventCallbackNoId(Mention(JText(TextTwoItems))))),
    Signed(SigningSecret, 0, Body(EventCallbackNoId(Mention(JText(TextLines))))) }

NextRetry ==
  \/ \E r \in Reqs, d \in RetryDeliveries : Arrive(r, d)
  \/ \E r \in Reqs : Handle(r)
  \/ \E r \in Reqs, reply \in AllReplies : HelpPosted(r, reply)
  \/ \E r \in Reqs, reply \in AllReplies : AckPosted(r, reply)
  \/ \E r \in Reqs : TaskStart(r)
  \/ \E r \in Reqs, has_cdp \in BOOLEAN : StepStart(r, has_cdp)
  \/ \E r \in Reqs, reply \in Replies : LivePosted(r, reply)
  \/ \E r \in Reqs : LiveCallbackRaises(r)
  \/ \E r \in Reqs, result \in Results : AgentReturns(r, result)
  \/ \E r \in Reqs : AgentRaises(r)
  \/ \E r \in Reqs, reply \in Replies : TerminalPosted(r, reply)

RetrySpec == Init /\ [][NextRetry]_vars

\* The parser on its own: one mention, signed by Slack, with any text of
\* ParseTexts, waits for its handler, which parses it, acknowledges it (or
\* answers with the help message) and creates the task that holds the list.
InitParse ==
  /\ SLACK_SIGNING_SECRET = SigningSecret
  /\ SLACK_BOT_TOKEN = BotToken
  /\ environ = FullEnviron
  /\ server = "serving"
  /\ processed_events = {}
  /\ now = 0
  /\ pc = [r \in Reqs |-> IF r = 1 THEN "body" ELSE "idle"]
  /\ \E text \in ParseTexts :
       request = [r \in Reqs |->
         IF r = 1
           THEN Signed(SigningSecret, 0, Body(EventCallback(Ev1, Mention(JText(text)))))
           ELSE NoRequest]
  /\ verified = [r \in Reqs |-> "-"]
  /\ gate = [r \in Reqs |-> "-"]
  /\ status = [r \in Reqs |-> 0]
  /\ content = [r \in Reqs |-> NoContent]
  /\ posts = [r \in Reqs |-> <<>>]
  /\ task = [r \in Reqs |-> NoTask]
  /\ runs = [r \in Reqs |-> 0]

NextParse ==
  \/ Handle(1)
  \/ \E reply \in Replies : HelpPosted(1, reply)
  \/ \E reply \in Replies : AckPosted(1, reply)

ParseSpec == InitParse /\ [][NextParse]_vars

\* ------------------------------------------------------------ the claims
Handled(r) == pc[r] \notin {"idle", "body"}
\* r's body is an event_callback that reaches the dedup gate of line 303
ReachesGate(r) ==
  /\ IsDict(request[r].body.doc)
  /\ Get(request[r].body.doc, "type") = JStr("event_callback")
  /\ IsDict(EventOf(request[r]))
  /\ Hashable(EventIdOf(request[r]))
Kinds(r) == { posts[r][i].msg.kind : i \in DOMAIN posts[r] }

\* C1: whatever the deliveries and their interleaving, run_groceries is called
\* at most once for an event_id: no request's task runs twice, and no two
\* requests with the same event_id both have a run.
C1_AtMostOneRunPerEvent ==
  /\ \A r \in Reqs : runs[r] <= 1
  /\ \A r1, r2 \in Reqs :
       (runs[r1] > 0 /\ runs[r2] > 0
        /\ EventIdOf(request[r1]) = EventIdOf(request[r2])) => r1 = r2

\* Two deliveries of one event_id were both handled to the end, and the
\* automation ran for the first.
C1_Witness ==
  /\ pc[1] = "done" /\ pc[2] = "done"
  /\ ReachesGate(1) /\ ReachesGate(2)
  /\ EventIdOf(request[1]) = EventIdOf(request[2])
  /\ runs[1] = 1 /\ task[1].st = "done"
  /\ gate[2] = "dup" /\ runs[2] = 0

\* C2: of the handlers that reach the dedup gate with one event_id, exactly
\* one passes, whichever runs first and however many are in flight; the others
\* are turned away; and no step removes an id from processed_events.
C2_GateAtomicAndPermanent ==
  [][ /\ processed_events \subseteq processed_events'
      /\ \A r \in Reqs :
           gate'[r] # "-" =>
             /\ EventIdOf(request'[r]) \in processed_events'
             /\ Cardinality({ q \in Reqs :
                    /\ gate'[q] = "passed"
                    /\ EventIdOf(request'[q]) = EventIdOf(request'[r]) }) = 1 ]_vars

\* Two handlers were in flight for one event_id before either reached the
\* gate: the second to arrive passed it and is still posting its
\* acknowledgment, the first was turned away.
C2_Witness ==
  /\ pc[2] = "ack" /\ gate[2] = "passed"
  /\ pc[1] = "done" /\ gate[1] = "dup" /\ status[1] = 200
  /\ EventIdOf(request[1]) = EventIdOf(request[2])

\* The request is what the Signature Verifier is to accept at time clock: the
\* secret is configured, the timestamp is an integer within the freshness
\* window, and the signature is the HMAC of timestamp and body under the secret.
Fresh(timestamp, clock) ==
  timestamp.t = "int" /\ Abs(clock - timestamp.n) <= FreshnessWindow
Stale(timestamp, clock) ==
  \/ timestamp = HHuge
  \/ timestamp.t = "int" /\ Abs(clock - timestamp.n) > FreshnessWindow
Authentic(req, secret, clock) ==
  /\ secret # Unset
  /\ Fresh(req.timestamp, clock)
  /\ req.signature = SignatureV0(secret, req.timestamp, req.body)
\* the step in which the handler of r runs from its body to its first
\* suspension or its return
Handling(r) == pc[r] = "body" /\ pc'[r] # "body"

\* C3: every request that is not correctly signed and fresh is answered 401
\* with the one rejection body, whichever check it fails.
C3_RejectionIs401 ==
  [][ \A r \in Reqs :
        (Handling(r) /\ ~Authentic(request[r], SLACK_SIGNING_SECRET, now)) =>
          /\ status'[r] = 401
          /\ content'[r] = TextContent("Invalid signature") ]_vars

\* C4: a request has a notification, a mark in processed_events or a task only
\* if verify_slack_signature returned True for it; a notification or a task
\* only if it passed the dedup gate; and every id in processed_events was put
\* there by a request that was verified.
C4_GateOrder ==
  /\ \A r \in Reqs :
       /\ (gate[r] # "-" \/ posts[r] # <<>> \/ task[r].st # "none" \/ runs[r] > 0
           \/ pc[r] \in {"help", "ack"})
            => (verified[r] = "True"
                /\ request[r].signature
                     = SignatureV0(SLACK_SIGNING_SECRET, request[r].timestamp,
                                   request[r].body))
       /\ (posts[r] # <<>> \/ task[r].st # "none" \/ runs[r] > 0
           \/ pc[r] \in {"help", "ack"}) => gate[r] = "passed"
  /\ \A id \in processed_events :
       \E r \in Reqs :
         verified[r] = "True" /\ gate[r] = "passed" /\ EventIdOf(request[r]) = id

\* A forged delivery was rejected and left nothing behind, and a delivery of
\* the same event, signed by Slack, went through the gates to its run.
C4_Witness ==
  \E r1, r2 \in Reqs :
    /\ verified[r1] = "False" /\ status[r1] = 401
    /\ posts[r1] = <<>> /\ task[r1].st = "none"
    /\ verified[r2] = "True" /\ gate[r2] = "passed"
    /\ Kinds(r2) = {"ack"} /\ runs[r2] = 1
    /\ request[r1].body = request[r2].body

C6_VerifyAcceptsFreshRejectsStale ==
  [][ \A r \in Reqs :
        (Handling(r) /\ SLACK_SIGNING_SECRET # Unset) =>
          /\ Authentic(request[r], SLACK_SIGNING_SECRET, now) => verified'[r] = "True"
          /\ Stale(request[r].timestamp, now) => verified'[r] = "False" ]_vars

\* C7: the status is 401 exactly when the signature check fails, 400 exactly
\* when a verified body is not JSON, and 200 for every other verified request.
C7_StatusIs200Or400Or401 ==
  \A r \in Reqs :
    pc[r] = "done" =>
      /\ status[r] \in {200, 400, 401}
      /\ status[r] = 401 <=> verified[r] # "True"
      /\ status[r] = 400 <=> (verified[r] = "True" /\ request[r].body.doc = Malformed)

IsUrlVerification(r) ==
  /\ IsDict(request[r].body.doc)
  /\ Get(request[r].body.doc, "type") = JStr("url_verification")

\* C8: a verified url_verification request is answered 200 with the body
\* {"challenge": c}, c the value of its challenge; its step changes neither
\* processed_events nor any notification or task, and nothing is ever posted
\* or run for it.
C8_ChallengeEchoed ==
  /\ [][ \A r \in Reqs :
           (Handling(r) /\ verified'[r] = "True" /\ IsUrlVerification(r)) =>
             /\ pc'[r] = "done" /\ status'[r] = 200
             /\ content'[r] = JsonContent([challenge |->
                                 Get(request[r].body.doc, "challenge")])
             /\ UNCHANGED <<processed_events, posts, task, runs>> ]_vars
  /\ [](\A r \in Reqs :
          (Handled(r) /\ verified[r] = "True" /\ IsUrlVerification(r)) =>
             /\ pc[r] = "done" /\ status[r] = 200
             /\ content[r].t = "json"
             /\ posts[r] = <<>> /\ task[r] = NoTask /\ runs[r] = 0)

\* A url_verification request was answered with its challenge after an event
\* had been processed, and processed_events still holds that event alone.
C8_Witness ==
  /\ gate[1] = "passed" /\ processed_events = {EventIdOf(request[1])}
  /\ pc[2] = "done" /\ IsUrlVerification(2) /\ status[2] = 200
  /\ content[2] = JsonContent([challenge |-> JStr("abc123")])

IsTaskKind(kind) == kind \in {"live", "success", "failure", "error"}

\* C9: in the notifications of a request, an acknowledgment whose post has
\* ended precedes every live-preview, success and failure notification; the
\* task does not exist before that.
C9_AckFirst ==
  \A r \in Reqs :
    /\ \A i \in DOMAIN posts[r] :
         IsTaskKind(posts[r][i].msg.kind) =>
           \E j \in 1..(i - 1) : posts[r][j].msg.kind = "ack"
    /\ (task[r].st # "none" \/ runs[r] > 0) =>
         (posts[r] # <<>> /\ posts[r][1].msg.kind = "ack")

\* A request has its acknowledgment, then its live-preview link, then its
\* success message, while another request's task is still running.
C9_Witness ==
  \E r, q \in Reqs :
    /\ Len(posts[r]) = 3
    /\ posts[r][1].msg.kind = "ack" /\ posts[r][2].msg.kind = "live"
    /\ posts[r][3].msg.kind = "success"
    /\ q # r /\ task[q].st = "running"

\* C10: once the acknowledgment of a request is being posted, its response is
\* returned with status 200 even if no automation step is ever taken; the
\* response is there as soon as the task exists, and stays 200 whatever the
\* task does.
C10_ResponseDoesNotWait ==
  /\ \A r \in Reqs : (pc[r] = "ack") ~> (pc[r] = "done" /\ status[r] = 200)
  /\ [](\A r \in Reqs :
          (task[r].st # "none" \/ runs[r] > 0) => (pc[r] = "done" /\ status[r] = 200))

\* The response is out with status 200 while the run has not ended.
C10_Witness ==
  \E r \in Reqs : pc[r] = "done" /\ status[r] = 200 /\ task[r].st = "running"

\* ------------------------------------------------ the automation's outcome
LastPost(r) == posts[r][Len(posts[r])]
\* r's run has ended and its last call of post_to_slack has returned
Finished(r) == task[r].st = "done"
\* run_groceries returned text to r's task
Returned(r) == Finished(r) /\ task[r].result.t = "text"
ResultLines(r) == SplitChar(task[r].result.c, "\n")
TerminalKinds == {"success", "failure", "error"}
TerminalPosts(r) == { i \in DOMAIN posts[r] : posts[r][i].msg.kind \in TerminalKinds }

\* The reading of the result the amended C11 states: the cart lines are the
\* lines that begin with the marker once leading blanks are dropped, the URL is
\* what follows the marker on the last of them, without its surrounding
\* blanks, and the notices are the other lines that hold one of the phrases.
CartLineNumbers(lines) ==
  { i \in DOMAIN lines : StartsWith(Strip(lines[i]), CartMarker) }
LastCartLine(lines) ==
  lines[CHOOSE i \in CartLineNumbers(lines) : \A j \in CartLineNumbers(lines) : j <= i]
UrlAfterMarker(line) ==
  Strip(SubSeq(Strip(line), Len(CartMarker) + 1, Len(Strip(line))))
HoldsPhrase(line) ==
  \E i \in 1..Len(line) :
    \/ MatchAt(Lower(line), i, PhraseNotAdded)
    \/ MatchAt(Lower(line), i, PhraseUnavailable)
IsNotice(line) == ~StartsWith(Strip(line), CartMarker) /\ HoldsPhrase(line)
Notices(lines) ==
  LET kept == SelectSeq(lines, IsNotice)
  IN  [i \in 1..Len(kept) |-> Strip(kept[i])]
HasCartUrl(lines) ==
  CartLineNumbers(lines) # {} /\ UrlAfterMarker(LastCartLine(lines)) # <<>>

C12_FaultOrNoCartMeansFailure ==
  \A r \in Reqs :
    (SLACK_BOT_TOKEN # Unset /\ Finished(r)) =>
      /\ task[r].result = Raised =>
            /\ LastPost(r).msg.kind = "error"
            /\ LastPost(r).msg.error \in {"ValueError", "TypeError", "Exception"}
      /\ (task[r].result.t = "text" /\ CartLineNumbers(ResultLines(r)) = {}) =>
            LastPost(r).msg = [kind |-> "failure", result |-> task[r].result.c]
      /\ (task[r].result = Raised \/ CartLineNumbers(ResultLines(r)) = {}) =>
            /\ "success" \notin Kinds(r)
            /\ TerminalPosts(r) = {Len(posts[r])}
            /\ LastPost(r).attempts = 1
            /\ LastPost(r).channel = Get(EventOf(request[r]), "channel")
            /\ LastPost(r).thread_ts = Get(EventOf(request[r]), "ts")

C12_Witness ==
  \E r \in Reqs :
    /\ SLACK_BOT_TOKEN # Unset /\ Finished(r)
    /\ task[r].result = JText(ResultMarkerInside)
    /\ LastPost(r).msg = [kind |-> "failure", result |-> ResultMarkerInside]
    /\ LastPost(r).channel = JStr("C1") /\ LastPost(r).thread_ts = JStr("17.1")

\* r's body is an event_callback that reached the gate and whose inner event
\* is an app_mention with a str for text
IsMention(r) ==
  /\ ReachesGate(r)
  /\ Get(EventOf(request[r]), "type") = JStr("app_mention")
  /\ GetOr(EventOf(request[r]), "text", JText(<<>>)).t = "text"

\* C13: a correctly signed first delivery of an app_mention whose parsed list
\* is empty never gets an acknowledgment or a task, and once handled it has
\* exactly one notification, the help message, and the response 200.
C13_EmptyListGetsHelp ==
  \A r \in Reqs :
    (Handled(r) /\ verified[r] = "True" /\ gate[r] = "passed" /\ IsMention(r)
       /\ GroceryListOf(request[r]) = <<>>)
      => /\ "ack" \notin Kinds(r) /\ task[r] = NoTask /\ runs[r] = 0
         /\ pc[r] = "done" =>
              /\ status[r] = 200
              /\ Len(posts[r]) = 1 /\ posts[r][1].msg = HelpMessage
              /\ posts[r][1].attempts = 1

C13_Witness ==
  \E r \in Reqs :
    /\ pc[r] = "done" /\ gate[r] = "passed" /\ IsMention(r)
    /\ GetOr(EventOf(request[r]), "text", JText(<<>>)).c = TextMentionOnly
    /\ status[r] = 200 /\ Kinds(r) = {"help"} /\ task[r] = NoTask

\* r's body is an event_callback whose inner event is not an app_mention
IsOtherEvent(r) ==
  /\ IsDict(request[r].body.doc)
  /\ Get(request[r].body.doc, "type") = JStr("event_callback")
  /\ \/ ~IsDict(EventOf(request[r]))
     \/ Get(EventOf(request[r]), "type") # JStr("app_mention")
\* r's body is a JSON object whose type is neither url_verification nor
\* event_callback
IsOtherType(r) ==
  /\ IsDict(request[r].body.doc)
  /\ Get(request[r].body.doc, "type") \notin
       {JStr("url_verification"), JStr("event_callback")}

\* C14: every correctly signed event_callback whose inner event is not an
\* app_mention, and every correctly signed request of another type, is
\* answered 200 with no notification and no task.
C14_OtherEventsAre200NoOp ==
  \A r \in Reqs :
    (pc[r] = "done" /\ verified[r] = "True" /\ (IsOtherEvent(r) \/ IsOtherType(r)))
      => /\ status[r] = 200
         /\ posts[r] = <<>> /\ task[r] = NoTask /\ runs[r] = 0

\* C15: the process started by `python slack_server.py` serves (has bound its
\* socket) only when the signing secret, the bot token, the automation API
\* key and the site email and password are all set.
C15_ServesOnlyWhenConfigured ==
  server = "serving" =>
    /\ SLACK_SIGNING_SECRET # Unset /\ SLACK_BOT_TOKEN # Unset
    /\ environ.BROWSER_USE_API_KEY # Unset
    /\ environ.TESCO_EMAIL # Unset /\ environ.TESCO_PASSWORD # Unset

\* r's delivery is a correctly signed mention with at least one item
IsOrder(r) ==
  /\ request[r] # NoRequest
  /\ Authentic(request[r], SLACK_SIGNING_SECRET, now)
  /\ IsMention(r) /\ GroceryListOf(request[r]) # <<>>
\* q's automation run has started and has not ended
Running(q) == task[q].st \in {"running", "live"}

\* C16: a correctly signed mention with items whose event_id is new, arriving
\* while another request's run is Running, is verified, passes the gate, is
\* acknowledged, dispatched and answered 200, even if that run never ends
\* (unless a delivery with its own event_id passes the gate before it, and
\* then it is answered 200 as a duplicate).
C16_NotSerializedBehindRun ==
  \A r, q \in Reqs :
    (r # q /\ pc[r] = "body" /\ IsOrder(r) /\ Running(q)
       /\ EventIdOf(request[r]) \notin processed_events)
      ~> /\ pc[r] = "done" /\ status[r] = 200 /\ verified[r] = "True"
         /\ \/ /\ gate[r] = "passed"
               /\ posts[r] # <<>> /\ posts[r][1].msg.kind = "ack"
               /\ task[r].st # "none"
            \/ /\ gate[r] = "dup"
               /\ \E s \in Reqs \ {r} :
                    gate[s] = "passed" /\ EventIdOf(request[s]) = EventIdOf(request[r])

\* r has been acknowledged, dispatched and answered while q's run, started
\* before r arrived or not, is still Running.
C16_Witness ==
  \E r, q \in Reqs :
    /\ q < r /\ Running(q) /\ runs[q] = 1
    /\ gate[q] = "passed" /\ gate[r] = "passed"
    /\ EventIdOf(request[r]) # EventIdOf(request[q])
    /\ pc[r] = "done" /\ status[r] = 200
    /\ Kinds(r) = {"ack"} /\ task[r].st = "scheduled"

\* The calls of post_to_slack made for r with a message of kind
PostsOfKind(r, kind) == { i \in DOMAIN posts[r] : posts[r][i].msg.kind = kind }

\* C17: every call of post_to_slack returns to its caller and makes one HTTP
\* attempt, none when there is no bot token, whatever Slack's reply; no
\* message is posted twice, and the caller goes on: the handler returns 200
\* (and has created the task after an acknowledgment), the task ends.
C17_PostReturnsAfterOneAttempt ==
  \A r \in Reqs :
    /\ \A i \in DOMAIN posts[r] :
         /\ posts[r][i].raised = "none"
         /\ posts[r][i].attempts = IF SLACK_BOT_TOKEN = Unset THEN 0 ELSE 1
    /\ \A kind \in {"help", "ack", "live"} : Cardinality(PostsOfKind(r, kind)) <= 1
    /\ Cardinality(TerminalPosts(r)) <= 1
    /\ (pc[r] = "done" /\ posts[r] # <<>>) =>
         /\ status[r] = 200
         /\ posts[r][1].msg.kind = "ack" => task[r].st # "none"
    /\ task[r].st # "failed"
    /\ TerminalPosts(r) # {} => task[r].st = "done"

\* Slack did not take the acknowledgment (ok false, an error status, no
\* connection): the handler has returned 200 and the task exists.
C17_Witness ==
  \E r \in Reqs :
    /\ pc[r] = "done" /\ status[r] = 200 /\ Len(posts[r]) = 3
    /\ posts[r][1].msg.kind = "ack" /\ posts[r][2].msg.kind = "live"
    /\ \A i \in 1..3 : posts[r][i].attempts = 1 /\ ~posts[r][i].ok
    /\ task[r].st = "done"

\* C18: a url_verification request that carries neither the timestamp header
\* nor the signature header is answered 200 with its challenge in a JSON body.
C18_UnsignedChallengeEchoed ==
  \A r \in Reqs :
    (pc[r] = "done" /\ request[r].timestamp = HEmpty /\ request[r].signature = HEmpty
       /\ IsUrlVerification(r))
      => /\ status[r] = 200
         /\ content[r] = JsonContent([challenge |-> Get(request[r].body.doc, "challenge")])

\* C19: a run that has ended (run_groceries returned or raised) gets its one
\* terminal call of post_to_slack; a request never has two terminal messages,
\* the terminal message is the last message of the request, and once it is
\* posted neither the task nor the request's notifications change.
C19_ExactlyOneTerminalNotification ==
  /\ [](\A r \in Reqs :
          /\ Cardinality(TerminalPosts(r)) <= 1
          /\ Finished(r) <=> TerminalPosts(r) # {}
          /\ Finished(r) =>
               /\ TerminalPosts(r) = {Len(posts[r])}
               /\ LastPost(r).msg = task[r].msg /\ LastPost(r).attempts = 1
               /\ task[r].result # NoResult)
  /\ [][ \A r \in Reqs :
           Finished(r) => (posts'[r] = posts[r] /\ task'[r] = task[r]) ]_vars
  /\ \A r \in Reqs : (task[r].st = "posting") ~> Finished(r)

\* run_groceries raised and the error message, after the acknowledgment, is
\* the task's only terminal message.
C19_Witness ==
  \E r \in Reqs :
    /\ Finished(r) /\ task[r].result = Raised /\ Len(posts[r]) = 2
    /\ posts[r][1].msg.kind = "ack" /\ posts[r][2].msg = ErrorMessage("Exception")

\* C20: the live-preview callback is called at most once in a run (it is
\* called only while the flag live_url_captured is down, its end raises the
\* flag and the flag stays up), so a request has at most one live-preview
\* message, however many steps the agent starts; the message is posted only during the run (after the
\* acknowledgment, before the terminal message, by a task that goes on
\* running); the end of the callback, by return or by exception, hands the
\* step back to the run, and the terminal message is the one the result of
\* run_groceries calls for, whether the callback raised or not.
C20_LivePreviewAtMostOnce ==
  /\ [](\A r \in Reqs :
          /\ Cardinality(PostsOfKind(r, "live")) <= 1
          /\ \A i \in PostsOfKind(r, "live") :
               /\ i > 1 /\ posts[r][1].msg.kind = "ack"
               /\ \A j \in TerminalPosts(r) : i < j
               /\ task[r].live_url_captured
          /\ (task[r].callback_raised /\ Finished(r)) =>
               /\ LastPost(r).msg.kind = "error" <=> task[r].result = Raised
               /\ task[r].result.t = "text" =>
                    LastPost(r).msg.kind =
                      IF HasCartUrl(ResultLines(r)) THEN "success" ELSE "failure")
  /\ [][ \A r \in Reqs :
           /\ PostsOfKind(r, "live")' # PostsOfKind(r, "live") =>
                (Running(r) /\ task'[r].st = "running")
           /\ task[r].st = "live" => task'[r].st \in {"live", "running"}
           /\ (task[r].st # "live" /\ task'[r].st = "live") =>
                (Running(r) /\ ~task[r].live_url_captured)
           /\ (task[r].st = "live" /\ task'[r].st # "live") =>
                task'[r].live_url_captured
           /\ task[r].live_url_captured => task'[r].live_url_captured ]_vars

\* The callback raised, the agent went on to return a cart, and the success
\* message is the task's terminal message.
C20_Witness ==
  \E r \in Reqs :
    /\ Finished(r) /\ task[r].callback_raised /\ task[r].live_url_captured
    /\ task[r].result = JText(ResultCart)
    /\ LastPost(r).msg.kind = "success" /\ PostsOfKind(r, "live") = {}
\* ------------------------------------------------------------ the dispatch
\* C21: a correctly signed first delivery of an app_mention whose parsed list
\* is not empty leads to one call of run_groceries by a task that holds
\* exactly the parsed list, the channel and the ts of the mention, whatever
\* Slack answered to the acknowledgment; the task is never started twice, and
\* a task never holds other arguments than those of its request.
C21_OrderDispatchedOnce ==
  /\ \A r \in Reqs :
       (pc[r] = "ack" /\ IsOrder(r) /\ gate[r] = "passed")
         ~> (runs[r] = 1 /\ task[r].args = TaskArgs(request[r]))
  /\ [](\A r \in Reqs :
          /\ runs[r] <= 1
          /\ task[r].st # "none" =>
               /\ IsMention(r) /\ gate[r] = "passed"
               /\ task[r].args.grocery_list =
                    parse_grocery_list(Get(EventOf(request[r]), "text").c)
               /\ task[r].args.grocery_list # <<>>
               /\ task[r].args.channel = Get(EventOf(request[r]), "channel")
               /\ task[r].args.thread_ts = Get(EventOf(request[r]), "ts"))

\* Slack refused the acknowledgment of an order (ok false); the automation
\* was called once all the same, with the two items of the mention.
C21_Witness ==
  \E r \in Reqs :
    /\ gate[r] = "passed" /\ pc[r] = "done"
    /\ Len(posts[r]) >= 1 /\ posts[r][1].msg.kind = "ack" /\ ~posts[r][1].ok
    /\ posts[r][1].attempts = 1
    /\ runs[r] = 1
    /\ task[r].args = [grocery_list |-> <<<<"m">>, <<"b">>>>,
                       channel |-> JStr("C1"), thread_ts |-> JStr("17.1")]

\* r was answered 401 or 400
Rejected(r) == pc[r] = "done" /\ status[r] \in {400, 401}

\* C22: the step that answers a request 401 or 400 changes neither
\* processed_events nor any notification or task; nothing is ever posted or
\* run for a rejected request; and a delivery is turned away as a duplicate
\* only when a delivery of the same event_id that was not rejected passed the
\* gate.
C22_RejectionLeavesNoTrace ==
  /\ [][ \A r \in Reqs :
           (Handling(r) /\ status'[r] \in {400, 401}) =>
             /\ pc'[r] = "done" /\ gate'[r] = "-"
             /\ UNCHANGED <<processed_events, posts, task, runs>> ]_vars
  /\ [](\A r \in Reqs :
          /\ Rejected(r) =>
               (gate[r] = "-" /\ posts[r] = <<>> /\ task[r] = NoTask /\ runs[r] = 0)
          /\ gate[r] = "dup" =>
               \E q \in Reqs \ {r} :
                 /\ gate[q] = "passed" /\ ~Rejected(q) /\ verified[q] = "True"
                 /\ EventIdOf(request[q]) = EventIdOf(request[r]))

\* A forged delivery of an event was answered 401; Slack's delivery of the
\* same body came after it, passed the gate as the first of its event_id and
\* got its run.
C22_Witness ==
  /\ Rejected(1) /\ status[1] = 401 /\ processed_events = {Ev1}
  /\ request[1].body = request[2].body /\ request[1].signature # request[2].signature
  /\ EventIdOf(request[2]) = Ev1
  /\ gate[2] = "passed" /\ Kinds(2) = {"ack"} /\ runs[2] = 1

\* --------------------------------------------------------------- the parser
\* The parser's rules, stated on their own.
LowerLetters ==
  {"a","b","c","d","e","f","g","h","i","j","k","l","m","n","o","p","q","r",
   "s","t","u","v","w","x","y","z"}
Alphanumerics == UpperDigits \cup LowerLetters

\* s holds, from index i to index j, a user-mention token <@X>, X a run of
\* one or more characters of ids
IsUserToken(s, i, j, ids) ==
  /\ 1 <= i /\ i + 3 <= j /\ j <= Len(s)
  /\ s[i] = "<" /\ s[i + 1] = "@" /\ s[j] = ">"
  /\ \A k \in (i + 2)..(j - 1) : s[k] \in ids
\* s holds, from index i to index j, the bot's name in some case
IsBotToken(s, i, j) ==
  /\ 1 <= i /\ j = i + Len(BotName) - 1 /\ j <= Len(s)
  /\ \A k \in 1..Len(BotName) : s[i + k - 1] \in {BotName[k]} \cup
        { c \in UpperDigits : LowerChar(c) = BotName[k] }

\* s without its user-mention tokens, the leftmost first
RECURSIVE WithoutUserTokens(_, _)
WithoutUserTokens(s, ids) ==
  LET starts == { i \in 1..Len(s) : \E j \in 1..Len(s) : IsUserToken(s, i, j, ids) }
  IN  IF starts = {} THEN s
      ELSE LET i == CHOOSE a \in starts : \A b \in starts : a <= b
               j == CHOOSE e \in 1..Len(s) : IsUserToken(s, i, e, ids)
           IN  SubSeq(s, 1, i - 1) \o WithoutUserTokens(SubSeq(s, j + 1, Len(s)), ids)

\* s without its bot-name tokens, the leftmost first
RECURSIVE WithoutBotTokens(_)
WithoutBotTokens(s) ==
  LET starts == { i \in 1..Len(s) : \E j \in 1..Len(s) : IsBotToken(s, i, j) }
  IN  IF starts = {} THEN s
      ELSE LET i == CHOOSE a \in starts : \A b \in starts : a <= b
           IN  SubSeq(s, 1, i - 1)
                 \o WithoutBotTokens(SubSeq(s, i + Len(BotName), Len(s)))

\* s from its first to its last character that is not whitespace
Trimmed(s) ==
  LET inked == { i \in 1..Len(s) : s[i] \notin Whitespace }
  IN  IF inked = {} THEN <<>>
      ELSE SubSeq(s, CHOOSE a \in inked : \A b \in inked : a <= b,
                     CHOOSE a \in inked : \A b \in inked : a >= b)

\* The segments of s between its separators sep, in order
Segments(s, sep) ==
  LET cuts == {0, Len(s) + 1} \cup { i \in 1..Len(s) : s[i] = sep }
      Cut(k) == CHOOSE c \in cuts : Cardinality({ d \in cuts : d < c }) = k - 1
  IN  [k \in 1..(Cardinality(cuts) - 1) |-> SubSeq(s, Cut(k) + 1, Cut(k + 1) - 1)]

IsItem(segment) == segment # <<>>

\* The items the rules give for text when a user id is a run of ids
ItemsByRule(text, ids) ==
  LET rest == Trimmed(WithoutBotTokens(WithoutUserTokens(text, ids)))
      sep == IF \E i \in 1..Len(rest) : rest[i] = "," THEN "," ELSE "\n"
      segments == Segments(rest, sep)
  IN  SelectSeq([k \in 1..Len(segments) |-> Trimmed(segments[k])], IsItem)

TextOf(r) == Get(EventOf(request[r]), "text").c

\* What the handler of r shows of the list it parsed: an empty list sends it
\* to the help message, any other to the acknowledgment, and the task it then
\* creates holds the list.
ParsedAs(r, items) ==
  IF pc[r] = "help" \/ "help" \in Kinds(r) THEN items = <<>>
  ELSE /\ items # <<>>
       /\ task[r].st # "none" => task[r].args.grocery_list = items
       /\ \A i \in PostsOfKind(r, "ack") : posts[r][i].msg = AckMessage(items)

\* C23 as stated: for every text the handler's list is the one the rules
\* give when every token <@X> with X alphanumeric is a user mention.
C23_ParseFollowsRules ==
  \A r \in Reqs :
    (Handled(r) /\ IsMention(r) /\ gate[r] = "passed")
      => ParsedAs(r, ItemsByRule(TextOf(r), Alphanumerics))

\* C23, amended: for every text the handler's list is the one the rules give
\* when a user mention is <@X> with X one or more capital letters and digits:
\* those tokens and every case variant of the bot's name are removed, the
\* rest is split on commas if it holds one and on newlines otherwise, and the
\* list is the trimmed segments that are not empty, in order, repeats kept.
C23_ParseFollowsSlackIdRules ==
  \A r \in Reqs :
    (Handled(r) /\ IsMention(r) /\ gate[r] = "passed")
      => ParsedAs(r, ItemsByRule(TextOf(r), UpperDigits))

\* The text "<@U123> milk, bread,  eggs " was parsed, acknowledged and
\* dispatched as milk, bread, eggs.
C23_Witness ==
  /\ pc[1] = "done" /\ TextOf(1) = TextThreeItems
  /\ task[1].st = "scheduled"
  /\ task[1].args.grocery_list =
       << <<"m", "i", "l", "k">>, <<"b", "r", "e", "a", "d">>, <<"e", "g", "g", "s">> >>

\* ------------------------------------------------------ the missing event_id
\* r's body is an event_callback without the key event_id, with an inner
\* event the handler can read
HasNoEventId(r) ==
  /\ ReachesGate(r)
  /\ "event_id" \notin DOMAIN request[r].body.doc.o

FirstCameToLittle(q) ==
  /\ gate[q] = "passed"
  /\ \/ Get(EventOf(request[q]), "type") # JStr("app_mention")
     \/ ~IsMention(q)
     \/ GroceryListOf(request[q]) = <<>>
     \/ \E i \in PostsOfKind(q, "ack") : ~posts[q][i].ok

\* C25: the step in which a request passes the dedup gate puts its event_id
\* in processed_events, whatever the inner event, and the id stays there
\* whatever the handler does next; so when the first delivery of an event was
\* no app_mention, had an empty list or had its acknowledgment refused, every
\* other delivery of that event_id is answered 200 as a duplicate and has no
\* notification, no task and no run.
C25_MarkedAtTheGate ==
  /\ [][ \A r \in Reqs :
           (Handling(r) /\ gate'[r] = "passed") =>
             /\ EventIdOf(request[r]) \notin processed_events
             /\ processed_events' = processed_events \cup {EventIdOf(request[r])} ]_vars
  /\ [](\A q \in Reqs :
          /\ gate[q] = "passed" => EventIdOf(request[q]) \in processed_events
          /\ FirstCameToLittle(q) =>
               \A r \in Reqs \ {q} :
                 (Handled(r) /\ verified[r] = "True" /\ ReachesGate(r)
                    /\ EventIdOf(request[r]) = EventIdOf(request[q]))
                   => /\ gate[r] = "dup" /\ pc[r] = "done" /\ status[r] = 200
                      /\ posts[r] = <<>> /\ task[r] = NoTask /\ runs[r] = 0)

\* The first delivery of an event was no app_mention; the event came again
\* as an order and was dropped: no acknowledgment, no task.
C25_Witness ==
  \E q, r \in Reqs :
    /\ gate[q] = "passed" /\ gate[r] = "dup"
    /\ Get(EventOf(request[q]), "type") = JStr("message")
    /\ pc[q] = "done" /\ status[q] = 200 /\ posts[q] = <<>>
    /\ IsMention(r) /\ GroceryListOf(request[r]) # <<>>
    /\ EventIdOf(request[r]) = EventIdOf(request[q])
    /\ pc[r] = "done" /\ status[r] = 200 /\ posts[r] = <<>> /\ task[r] = NoTask
====
